---------------------------- MODULE Spec2Model ----------------------------
(***************************************************************************)
(* svgcleaner: the convergence driver (src/main.rs) and the pass that      *)
(* folds transforms into shape geometry                                    *)
(* (src/task/apply_transforms/shapes.rs).                                  *)
(*                                                                         *)
(* Spec      - one run of main(): load, parse/clean/serialize cycles, size *)
(*             check, save, with the recovery closure on_err.              *)
(* FairSpec  - Spec with weak fairness: a sequential program keeps running.*)
(* PassSpec  - one run of apply_transform_to_shapes on a tree drawn from   *)
(*             bounded families of documents.                              *)
(***************************************************************************)
EXTENDS Integers, Sequences, FiniteSets, TLC

VARIABLES
    args,        \* the resolved command line: options, input and output
    pc,          \* position of main(): "start", "loop", "check", "exit"
    raw,         \* the loaded input (the content of the input file)
    input_size,  \* raw.len()
    buf,         \* the working buffer
    prev_size,   \* size of the buffer after the previous cycle
    stderr,      \* messages written to stderr, in order
    io,          \* writes to the destination, in order: fs::copy and the save step
    cycles,      \* history: completed parse-clean-serialize cycles (saturating)
    hist,        \* history: facts about the run so far
    doc,         \* the tree apply_transform_to_shapes works on, in document order
    orig,        \* history: the tree as it was handed to the current run of the pass
    stage,       \* position of apply_transform_to_shapes: "A", "B", "done"
    idx,         \* position of the stage's iterator over doc.descendants()
    runs         \* history: the trees handed to the finished runs of the pass

driverVars == <<args, pc, raw, input_size, buf, prev_size, stderr, io, cycles, hist>>
passVars == <<doc, orig, stage, idx, runs>>
vars == <<args, pc, raw, input_size, buf, prev_size, stderr, io, cycles, hist,
          doc, orig, stage, idx, runs>>

-----------------------------------------------------------------------------
(* Bounds *)

\* longest buffer the loader and the serializer produce
MaxLen == 2
\* the cycle counter saturates here (it guards nothing)
MaxCycles == 4
\* most children of the group of a document
MaxChildren == 2
\* uniform scale factors of the transforms run over 1..MaxScale
MaxScale == 2
\* stroke widths run over 1..MaxStroke
MaxStroke == 2

Bytes == {97, 98}
NewLine == 10

Bufs == UNION {[1..n -> Bytes] : n \in 0..MaxLen}

Min(a, b) == IF a < b THEN a ELSE b

-----------------------------------------------------------------------------
(* The command line *)

Stdin == [kind |-> "Stdin", path |-> ""]
Stdout == [kind |-> "Stdout", path |-> ""]
File(p) == [kind |-> "File", path |-> p]

Inputs == {Stdin, File("a.svg")}
Outputs == {Stdout, File("a.svg"), File("b.svg")}

Args == [input : Inputs, output : Outputs,
         multipass : BOOLEAN, allow_bigger : BOOLEAN,
         copy_on_error : BOOLEAN, append_newline : BOOLEAN, quiet : BOOLEAN]

-----------------------------------------------------------------------------
(* on_err: the recovery closure *)

\* CopyWanted without the comparison of the two paths
CopyWantedSamePath(a) ==
    /\ a.input.kind = "File"
    /\ a.output.kind = "File"
    /\ a.copy_on_error

\* the condition under which on_err calls fs::copy
CopyWanted(a) ==
    /\ a.input.kind = "File"
    /\ a.output.kind = "File"
    /\ a.copy_on_error
    /\ a.input.path # a.output.path

\* the writes on_err performs; copyOk is the outcome of fs::copy
OnErrIo(a, original, copyOk) ==
    IF CopyWanted(a)
    THEN <<[op |-> "copy", data |-> original, ok |-> copyOk]>>
    ELSE <<>>

\* what on_err writes to stderr: try_msg! reports a failed copy
OnErrMsg(a, copyOk) ==
    IF CopyWanted(a) /\ ~copyOk THEN <<"Error: copy failed">> ELSE <<>>

\* on_err reaches std::process::exit(0) unless try_msg! returned from the
\* closure after a failed copy
OnErrExits(a, copyOk) == ~CopyWanted(a) \/ copyOk

-----------------------------------------------------------------------------
(* main *)

NoHist == [load_failed |-> FALSE, parse_failed |-> FALSE, pass_failed |-> FALSE,
           rejected |-> FALSE, save_failed |-> FALSE,
           fixpoint |-> TRUE, grew |-> FALSE, at_check |-> -1,
           early_equal |-> FALSE, last_equal |-> FALSE, last_differs |-> FALSE,
           last_out |-> <<>>]

Init ==
    /\ args \in Args
    /\ pc = "start"
    /\ raw = <<>>
    /\ input_size = 0
    /\ buf = <<>>
    /\ prev_size = 0
    /\ stderr = <<>>
    /\ io = <<>>
    /\ cycles = 0
    /\ hist = NoHist
    /\ doc = <<>>
    /\ orig = <<>>
    /\ stage = "done"
    /\ idx = 0
    /\ runs = <<>>

\* main.rs 83-88: the named input file does not exist
InputMissing ==
    /\ pc = "start"
    /\ args.input.kind = "File"
    /\ stderr' = Append(stderr, "Error: input file does not exist.")
    /\ pc' = "exit"
    /\ UNCHANGED <<args, raw, input_size, buf, prev_size, io, cycles, hist>>
    /\ UNCHANGED passVars

\* main.rs 91-94: load_stdin / load_file fails, try_msg! returns
LoadFail ==
    /\ pc = "start"
    /\ stderr' = Append(stderr, "Error: load")
    /\ hist' = [hist EXCEPT !.load_failed = TRUE]
    /\ pc' = "exit"
    /\ UNCHANGED <<args, raw, input_size, buf, prev_size, io, cycles>>
    /\ UNCHANGED passVars

\* main.rs 91-94, 117-119
LoadOk ==
    /\ pc = "start"
    /\ \E data \in Bufs :
        /\ raw' = data
        /\ input_size' = Len(data)
        /\ buf' = data
    /\ prev_size' = 0
    /\ pc' = "loop"
    /\ UNCHANGED <<args, stderr, io, cycles, hist>>
    /\ UNCHANGED passVars

\* main.rs 127-134: parse_data fails; on_err, then return
ParseFail ==
    /\ pc = "loop"
    /\ \E copyOk \in BOOLEAN :
        /\ stderr' = Append(stderr, "parse error") \o OnErrMsg(args, copyOk)
        /\ io' = io \o OnErrIo(args, raw, copyOk)
    /\ hist' = [hist EXCEPT !.parse_failed = TRUE]
    /\ pc' = "exit"
    /\ UNCHANGED <<args, raw, input_size, buf, prev_size, cycles>>
    /\ UNCHANGED passVars

\* where main continues after on_err() in the clean_doc error arm
AfterPassFail(exited) == IF exited THEN "exit" ELSE "check"

\* main.rs 137-144: clean_doc fails; on_err, then break
PassFail ==
    /\ pc = "loop"
    /\ \E copyOk \in BOOLEAN :
        /\ stderr' = Append(stderr, "pass error") \o OnErrMsg(args, copyOk)
        /\ io' = io \o OnErrIo(args, raw, copyOk)
        /\ pc' = AfterPassFail(OnErrExits(args, copyOk))
    /\ hist' = [hist EXCEPT !.pass_failed = TRUE]
    /\ UNCHANGED <<args, raw, input_size, buf, prev_size, cycles>>
    /\ UNCHANGED passVars

\* LeavesLoop with the comparison of the sizes inverted
LeavesLoopInverted(a, prev, out) == ~a.multipass \/ prev # Len(out)

\* LeavesLoop that also leaves when the buffer got shorter
LeavesLoopOnShrink(a, prev, out) == ~a.multipass \/ Len(out) <= prev

\* LeavesLoop without the comparison of the sizes
LeavesLoopNoCompare(a, prev, out) == ~a.multipass

\* main.rs 155-163: whether the loop is left after a cycle that wrote out
LeavesLoop(a, prev, out) == ~a.multipass \/ prev = Len(out)

\* main.rs 127-165: a cycle without failure; out is what write_buffer produced
CycleOk ==
    /\ pc = "loop"
    /\ \E out \in Bufs :
        /\ buf' = out
        /\ pc' = IF LeavesLoop(args, prev_size, out) THEN "check" ELSE "loop"
        /\ prev_size' = IF LeavesLoop(args, prev_size, out) THEN prev_size ELSE Len(out)
        /\ hist' = [hist EXCEPT
              !.fixpoint = @ /\ out = buf,
              !.grew = @ \/ (cycles >= 1 /\ Len(out) > Len(buf)),
              !.early_equal = @ \/ (/\ cycles >= 1 /\ Len(out) = Len(buf)
                                    /\ ~LeavesLoop(args, prev_size, out)),
              !.last_equal = cycles >= 1 /\ Len(out) = Len(buf),
              !.last_differs = cycles >= 1 /\ Len(out) = Len(buf) /\ out # buf,
              !.last_out = out]
    /\ cycles' = Min(cycles + 1, MaxCycles)
    /\ UNCHANGED <<args, raw, input_size, stderr, io>>
    /\ UNCHANGED passVars

\* TooBig with the check left out
TooBigSkipped(a, b, size) == FALSE

\* TooBig off by one
TooBigOffByOne(a, b, size) == ~a.allow_bigger /\ Len(b) > size + 1

\* main.rs 169-170: the size check rejects the buffer
TooBig(a, b, size) == ~a.allow_bigger /\ Len(b) > size

\* main.rs 169-175: rejection; on_err, then return
Reject ==
    /\ pc = "check"
    /\ TooBig(args, buf, input_size)
    /\ \E copyOk \in BOOLEAN :
        /\ stderr' = Append(stderr, "Error: cleaned file is bigger than original.")
                        \o OnErrMsg(args, copyOk)
        /\ io' = io \o OnErrIo(args, raw, copyOk)
    /\ hist' = [hist EXCEPT !.rejected = TRUE, !.at_check = Len(buf)]
    /\ pc' = "exit"
    /\ UNCHANGED <<args, raw, input_size, buf, prev_size, cycles>>
    /\ UNCHANGED passVars

\* WithNewline that appends the line break twice
WithNewlineTwice(a, b) ==
    IF a.append_newline THEN Append(Append(b, NewLine), NewLine) ELSE b

\* main.rs 180-182
WithNewline(a, b) == IF a.append_newline THEN Append(b, NewLine) ELSE b

\* main.rs 192: the report printed unless --quiet
Report(a) == IF a.quiet THEN <<>> ELSE <<"Your image is smaller now.">>

\* main.rs 177-193: the buffer passes the check and is saved
SaveOk ==
    /\ pc = "check"
    /\ ~TooBig(args, buf, input_size)
    /\ buf' = WithNewline(args, buf)
    /\ io' = Append(io, [op |-> "save", data |-> WithNewline(args, buf), ok |-> TRUE])
    /\ stderr' = stderr \o Report(args)
    /\ hist' = [hist EXCEPT !.at_check = Len(buf)]
    /\ pc' = "exit"
    /\ UNCHANGED <<args, raw, input_size, prev_size, cycles>>
    /\ UNCHANGED passVars

\* main.rs 185-188: write_stdout / save_file fails, try_msg! returns
SaveFail ==
    /\ pc = "check"
    /\ ~TooBig(args, buf, input_size)
    /\ buf' = WithNewline(args, buf)
    /\ io' = Append(io, [op |-> "save", data |-> WithNewline(args, buf), ok |-> FALSE])
    /\ stderr' = Append(stderr, "Error: save")
    /\ hist' = [hist EXCEPT !.save_failed = TRUE, !.at_check = Len(buf)]
    /\ pc' = "exit"
    /\ UNCHANGED <<args, raw, input_size, prev_size, cycles>>
    /\ UNCHANGED passVars

Next ==
    \/ InputMissing
    \/ LoadFail
    \/ LoadOk
    \/ ParseFail
    \/ PassFail
    \/ CycleOk
    \/ Reject
    \/ SaveOk
    \/ SaveFail

Spec == Init /\ [][Next]_vars

\* main is sequential code: whatever step is enabled is eventually taken
FairSpec == Spec /\ WF_vars(Next)


-----------------------------------------------------------------------------
(* Properties of the driver *)

Range(s) == {s[i] : i \in DOMAIN s}

Saves == {e \in Range(io) : e.op = "save"}
Copies == {e \in Range(io) : e.op = "copy"}

BiggerMsg == "Error: cleaned file is bigger than original."

\* C1: with allow-bigger unset, a buffer that reaches the size check longer
\* than the input is reported as "cleaned file is bigger than original" and is
\* never handed to the save step, whatever copy-on-error is and whether or
\* not the fallback copy succeeds.
C1_BiggerRejected ==
    (~args.allow_bigger /\ hist.at_check > input_size)
        => (BiggerMsg \in Range(stderr) /\ Saves = {})

\* the rejection happened and the fallback copy failed
C1_Witness ==
    /\ ~args.allow_bigger
    /\ hist.at_check > input_size
    /\ pc = "exit"
    /\ \E e \in Copies : ~e.ok

C3_NoSaveAfterFailure ==
    (hist.parse_failed \/ hist.pass_failed) => Saves = {}

\* C4 as stated: after any fatal error (load, parse, pass, save) or a
\* rejection, a copy has been attempted iff the copy condition holds.
C4_CopyOnAnyFatal ==
    (pc = "exit" /\ (hist.load_failed \/ hist.parse_failed \/ hist.pass_failed
                        \/ hist.save_failed \/ hist.rejected))
        => (Copies # {} <=> CopyWanted(args))

\* C4 amended: a copy of the original is attempted iff on_err ran (parse
\* failure, pass failure or rejection) and the input is a named file, the
\* output is a named file, copy-on-error is set and the paths differ; what is
\* copied is the original input.
C4_CopyIff ==
    /\ Copies # {} <=>
          /\ hist.parse_failed \/ hist.pass_failed \/ hist.rejected
          /\ args.input.kind = "File"
          /\ args.output.kind = "File"
          /\ args.copy_on_error
          /\ args.input.path # args.output.path
    /\ \A e \in Copies : e.data = raw

\* on_err ran with the copy condition true
C4_Witness ==
    /\ pc = "exit"
    /\ hist.rejected
    /\ Copies # {}

\* the run left the loop without a failure
LeftLoop == pc \in {"check", "exit"} /\ cycles >= 1
              /\ ~hist.parse_failed /\ ~hist.pass_failed

\* C5 as stated: with multipass, a document that cleans to itself leaves the
\* loop after exactly one cycle.
C5_OneCycle ==
    (args.multipass /\ hist.fixpoint /\ LeftLoop) => cycles = 1

\* C5 amended: with multipass, a document that cleans to itself leaves the
\* loop after exactly two cycles (one if it is empty): prev_size starts at 0.
C5_TwoCycles ==
    (args.multipass /\ hist.fixpoint /\ LeftLoop)
        => cycles = (IF input_size = 0 THEN 1 ELSE 2)

\* a non-empty fixed point has left the loop
C5_Witness ==
    /\ args.multipass
    /\ hist.fixpoint
    /\ LeftLoop
    /\ input_size > 0
    /\ buf = raw

\* C6 as stated: the driver eventually leaves the loop.
C6_Terminates == <>(pc \in {"check", "exit"})

\* C6 amended: the driver eventually leaves the loop unless some cycle after
\* the first serializes to a longer buffer than the cycle before it.
C6_TerminatesUnlessGrows == <>(pc \in {"check", "exit"} \/ hist.grew)

\* three cycles of strictly shrinking output, then the loop is left
C6_Witness ==
    /\ args.multipass
    /\ pc = "check"
    /\ cycles >= 3
    /\ ~hist.grew
    /\ ~hist.pass_failed


-----------------------------------------------------------------------------
(* The attributed tree *)

\* A node is [kind, parent, attrs, units]: attrs maps the attributes that are
\* present to their values (a number, a transform for "transform", a link for
\* "mask"), units holds the attributes whose length carries a unit; parent is
\* the index of the parent in doc, 0 for the root.

Has(n, a) == a \in DOMAIN n.attrs
SetAttr(f, a, v) == [k \in DOMAIN f \cup {a} |-> IF k = a THEN v ELSE f[k]]
RemoveAttr(f, a) == [k \in DOMAIN f \ {a} |-> f[k]]

\* node.children(), in document order
Children(d, i) == {j \in 1..Len(d) : d[j].parent = i}

-----------------------------------------------------------------------------
(* svgdom::types::Transform *)

Ts(a, b, c, d, e, f) == [a |-> a, b |-> b, c |-> c, d |-> d, e |-> e, f |-> f]

\* ts1.append(&ts2): ts1 * ts2, so that ts2 is applied to a point first
TsAppend(t1, t2) ==
    Ts(t1.a * t2.a + t1.c * t2.b, t1.b * t2.a + t1.d * t2.b,
       t1.a * t2.c + t1.c * t2.d, t1.b * t2.c + t1.d * t2.d,
       t1.a * t2.e + t1.c * t2.f + t1.e, t1.b * t2.e + t1.d * t2.f + t1.f)

\* ts.apply(x, y)
TsApply(t, x, y) == <<t.a * x + t.c * y + t.e, t.b * x + t.d * y + t.f>>

\* ts.get_scale(), for a transform without rotation and skew and with
\* positive factors
GetScale(t) == <<t.a, t.d>>

\* ts.has_scale()
HasScale(t) == GetScale(t)[1] # 1 \/ GetScale(t)[2] # 1

-----------------------------------------------------------------------------
(* apply_transforms::utils and task::utils *)

IsShape(k) == k \in {"rect", "circle", "ellipse", "line"}

\* the geometry attributes a fold of the kind touches
CoordAttrs(k) ==
    CASE k = "rect" -> {"x", "y", "width", "height", "rx", "ry"}
      [] k = "circle" -> {"cx", "cy", "r"}
      [] k = "ellipse" -> {"cx", "cy", "rx", "ry"}
      [] k = "line" -> {"x1", "y1", "x2", "y2"}
      [] OTHER -> {}

get_ts(n) == n.attrs["transform"]

\* no rotation, no skew, not degenerate, and a scale that is the same on both
\* axes (tests::keep_2 keeps scale(2 3))
has_valid_transform(n) ==
    Has(n, "transform") =>
        LET t == get_ts(n) IN t.b = 0 /\ t.c = 0 /\ t.a = t.d /\ t.a > 0

\* no attribute that links to another element
is_valid_attrs(n) == ~Has(n, "mask")

\* every coordinate of the shape is a number without a unit
is_valid_coords(n) == n.units \cap CoordAttrs(n.kind) = {}

\* the pair (ax, ay), a missing one taken as 0, is mapped through ts
transform_coords(attrs, ax, ay, t) ==
    LET x == IF ax \in DOMAIN attrs THEN attrs[ax] ELSE 0
        y == IF ay \in DOMAIN attrs THEN attrs[ay] ELSE 0
        p == TsApply(t, x, y)
    IN  SetAttr(SetAttr(attrs, ax, p[1]), ay, p[2])

\* a present length is multiplied, a missing one stays missing
scale_coord(attrs, aid, k) ==
    IF aid \in DOMAIN attrs THEN [attrs EXCEPT ![aid] = @ * k] ELSE attrs

\* the stroke-width in effect on node i: its own, else the nearest
\* ancestor's, else 1
RECURSIVE ResolveStrokeWidth(_, _)
ResolveStrokeWidth(d, i) ==
    IF i = 0 THEN 1
    ELSE IF Has(d[i], "stroke-width") THEN d[i].attrs["stroke-width"]
    ELSE ResolveStrokeWidth(d, d[i].parent)

recalc_stroke_width(d, i, k) ==
    [d EXCEPT ![i].attrs = SetAttr(@, "stroke-width", ResolveStrokeWidth(d, i) * k)]

-----------------------------------------------------------------------------
(* apply_transform_to_shapes *)

\* RectFunc that forgets to scale the height
RectFuncWidthOnly(attrs, t) ==
    LET a0 == transform_coords(attrs, "x", "y", t)
        sx == GetScale(t)[1]
    IN  IF HasScale(t)
        THEN scale_coord(scale_coord(scale_coord(a0, "width", sx), "rx", sx), "ry", sx)
        ELSE a0

\* shapes.rs 120-131: the closure of process_rect
RectFunc(attrs, t) ==
    LET a0 == transform_coords(attrs, "x", "y", t)
        sx == GetScale(t)[1]
    IN  IF HasScale(t)
        THEN scale_coord(scale_coord(scale_coord(scale_coord(
                 a0, "width", sx), "height", sx), "rx", sx), "ry", sx)
        ELSE a0

\* shapes.rs 136-143: the closure of process_circle
CircleFunc(attrs, t) ==
    LET a0 == transform_coords(attrs, "cx", "cy", t)
    IN  IF HasScale(t) THEN scale_coord(a0, "r", GetScale(t)[1]) ELSE a0

\* shapes.rs 147-155: the closure of process_ellipse
EllipseFunc(attrs, t) ==
    LET a0 == transform_coords(attrs, "cx", "cy", t)
        sx == GetScale(t)[1]
    IN  IF HasScale(t) THEN scale_coord(scale_coord(a0, "rx", sx), "ry", sx) ELSE a0

\* LineFunc that maps the first end point only
LineFuncFirstPoint(attrs, t) == transform_coords(attrs, "x1", "y1", t)

\* shapes.rs 159-162: the closure of process_line
LineFunc(attrs, t) ==
    transform_coords(transform_coords(attrs, "x1", "y1", t), "x2", "y2", t)

\* the closure process is called with, by the kind of the shape
ShapeFunc(k, attrs, t) ==
    CASE k = "rect" -> RectFunc(attrs, t)
      [] k = "circle" -> CircleFunc(attrs, t)
      [] k = "ellipse" -> EllipseFunc(attrs, t)
      [] k = "line" -> LineFunc(attrs, t)

\* Foldable without the test of the coordinates
FoldableAnyCoords(n) == has_valid_transform(n) /\ is_valid_attrs(n)

\* shapes.rs 98-102: the guards of process
Foldable(n) == has_valid_transform(n) /\ is_valid_attrs(n) /\ is_valid_coords(n)

\* NeedsStroke that never asks for the recalculation
NeedsStrokeNever(t) == FALSE

\* NeedsStroke without the test for a scale part
NeedsStrokeAlways(t) == TRUE

\* shapes.rs 112-116: the stroke-width is recalculated after the fold
NeedsStroke(t) == HasScale(t)

\* Process that leaves the folded transform on the shape
ProcessKeepTransform(d, i) ==
    IF ~Foldable(d[i]) THEN d
    ELSE LET t == get_ts(d[i])
             d1 == [d EXCEPT ![i].attrs = ShapeFunc(d[i].kind, @, t)]
         IN  IF NeedsStroke(t) THEN recalc_stroke_width(d1, i, GetScale(t)[1]) ELSE d1

\* shapes.rs 95-117: process, on node i of d
Process(d, i) ==
    IF ~Foldable(d[i]) THEN d
    ELSE LET t == get_ts(d[i])
             d1 == [d EXCEPT ![i].attrs =
                        RemoveAttr(ShapeFunc(d[i].kind, @, t), "transform")]
         IN  IF NeedsStroke(t) THEN recalc_stroke_width(d1, i, GetScale(t)[1]) ELSE d1

\* shapes.rs 44-57: the test a child of a group has to pass
ChildValid(n) ==
    /\ IsShape(n.kind)
    /\ has_valid_transform(n)
    /\ is_valid_attrs(n)
    /\ is_valid_coords(n)

\* GroupCandidate without the test of the group's own transform
GroupCandidateAnyTransform(n) ==
    /\ n.kind = "g"
    /\ Has(n, "transform")
    /\ is_valid_attrs(n)

\* GroupCandidate without the test of the group's own attributes
GroupCandidateAnyAttrs(n) ==
    /\ n.kind = "g"
    /\ Has(n, "transform")
    /\ has_valid_transform(n)

\* shapes.rs 35-41: the groups stage A looks at
GroupCandidate(n) ==
    /\ n.kind = "g"
    /\ Has(n, "transform")
    /\ has_valid_transform(n)
    /\ is_valid_attrs(n)

\* AllChildrenValid with any() in place of all()
AnyChildValid(d, i) == \E j \in Children(d, i) : ChildValid(d[j])

\* shapes.rs 44-59: is_valid
AllChildrenValid(d, i) == \A j \in Children(d, i) : ChildValid(d[j])

\* Pushed with the child's transform as the outer one
PushedChildOuter(t, child) ==
    IF Has(child, "transform") THEN TsAppend(get_ts(child), t) ELSE t

\* shapes.rs 64-72: the transform a child gets from its group
Pushed(t, child) ==
    IF Has(child, "transform") THEN TsAppend(t, get_ts(child)) ELSE t

\* PushDown that also moves the children out of the group
PushDownUngroup(d, i) ==
    [j \in 1..Len(d) |->
        IF j \in Children(d, i)
        THEN [d[j] EXCEPT !.attrs = SetAttr(@, "transform", Pushed(get_ts(d[i]), d[j])),
                          !.parent = d[i].parent]
        ELSE IF j = i THEN [d[j] EXCEPT !.attrs = RemoveAttr(@, "transform")]
        ELSE d[j]]

\* shapes.rs 60-75: the transform of group i goes to its children
PushDown(d, i) ==
    [j \in 1..Len(d) |->
        IF j \in Children(d, i)
        THEN [d[j] EXCEPT !.attrs = SetAttr(@, "transform", Pushed(get_ts(d[i]), d[j]))]
        ELSE IF j = i THEN [d[j] EXCEPT !.attrs = RemoveAttr(@, "transform")]
        ELSE d[j]]

\* StageANode that does not look at the children
StageANodeUnchecked(d, i) ==
    IF GroupCandidate(d[i]) THEN PushDown(d, i) ELSE d

\* shapes.rs 35-80: the body of the first loop, for node i
StageANode(d, i) ==
    IF GroupCandidate(d[i]) /\ AllChildrenValid(d, i) THEN PushDown(d, i) ELSE d

\* shapes.rs 83-92: the body of the second loop, for node i
StageBNode(d, i) ==
    IF Has(d[i], "transform") /\ IsShape(d[i].kind) THEN Process(d, i) ELSE d

StageAStep ==
    /\ stage = "A"
    /\ idx <= Len(doc)
    /\ doc' = StageANode(doc, idx)
    /\ idx' = idx + 1
    /\ UNCHANGED <<orig, stage, runs>>
    /\ UNCHANGED driverVars

StageAEnd ==
    /\ stage = "A"
    /\ idx > Len(doc)
    /\ stage' = "B"
    /\ idx' = 1
    /\ UNCHANGED <<doc, orig, runs>>
    /\ UNCHANGED driverVars

StageBStep ==
    /\ stage = "B"
    /\ idx <= Len(doc)
    /\ doc' = StageBNode(doc, idx)
    /\ idx' = idx + 1
    /\ UNCHANGED <<orig, stage, runs>>
    /\ UNCHANGED driverVars

StageBEnd ==
    /\ stage = "B"
    /\ idx > Len(doc)
    /\ stage' = "done"
    /\ UNCHANGED <<doc, orig, idx, runs>>
    /\ UNCHANGED driverVars

\* apply_transform_to_shapes is called once more, on the tree the first call
\* left
Rerun ==
    /\ stage = "done"
    /\ runs = <<>>
    /\ runs' = Append(runs, orig)
    /\ orig' = doc
    /\ stage' = "A"
    /\ idx' = 1
    /\ UNCHANGED doc
    /\ UNCHANGED driverVars

PassNext ==
    \/ StageAStep
    \/ StageAEnd
    \/ StageBStep
    \/ StageBEnd
    \/ Rerun


-----------------------------------------------------------------------------
(* The documents the pass is run on *)

NoAttrs == [k \in {} |-> 0]
Node(k, p, a, u) == [kind |-> k, parent |-> p, attrs |-> a, units |-> u]

Scale(s) == Ts(s, 0, 0, s, 0, 0)
TranslateScale(s) == Ts(s, 0, 0, s, 10, 20)
NonUniform == Ts(2, 0, 0, 3, 0, 0)
Rotate == Ts(0, 1, -1, 0, 0, 0)

WithTs(f, T) == {f} \cup {SetAttr(f, "transform", t) : t \in T}
WithStroke(f, W) == {f} \cup {SetAttr(f, "stroke-width", w) : w \in W}
WithMask(f) == {f, SetAttr(f, "mask", "url(#m)")}

\* the geometry a shape of the kind is given
Geoms(k) ==
    CASE k = "rect" ->
           { ("width" :> 10) @@ ("height" :> 10),
             ("x" :> 10) @@ ("y" :> 15) @@ ("width" :> 10) @@ ("height" :> 10),
             ("x" :> 10) @@ ("y" :> 15) @@ ("width" :> 30) @@ ("height" :> 20)
                @@ ("rx" :> 2) @@ ("ry" :> 3) }
      [] k = "circle" ->
           { ("r" :> 15), ("cx" :> 10) @@ ("cy" :> 15) @@ ("r" :> 15) }
      [] k = "ellipse" ->
           { ("rx" :> 15) @@ ("ry" :> 5),
             ("cx" :> 10) @@ ("cy" :> 15) @@ ("rx" :> 15) @@ ("ry" :> 5) }
      [] k = "line" ->
           { ("x2" :> 30) @@ ("y2" :> 5),
             ("x1" :> 10) @@ ("y1" :> 15) @@ ("x2" :> 30) @@ ("y2" :> 5) }

\* an attribute every shape of the kind has, to put a unit on
UnitAttr(k) ==
    CASE k = "rect" -> "width" [] k = "circle" -> "r"
      [] k = "ellipse" -> "rx" [] k = "line" -> "x2"

ShapeTs ==
    {Scale(s) : s \in 1..MaxScale} \cup {TranslateScale(s) : s \in 1..MaxScale}
        \cup {NonUniform, Rotate}

\* the attributes a shape of the kind is given
ShapeAttrs(k) ==
    UNION {UNION {UNION {WithMask(a3) : a3 \in WithStroke(a2, 1..MaxStroke)}
                     : a2 \in WithTs(a1, ShapeTs)} : a1 \in Geoms(k)}

ShapeNodes ==
    UNION {{Node(k, 1, a, u) : a \in ShapeAttrs(k), u \in {{}, {UnitAttr(k)}}}
              : k \in {"rect", "circle", "ellipse", "line"}}

\* <svg> with one shape in it
ShapeDocs ==
    { <<Node("svg", 0, sa, {}), n>> :
        sa \in WithStroke(NoAttrs, 1..MaxStroke), n \in ShapeNodes }

PlainRect == ("x" :> 10) @@ ("y" :> 15) @@ ("width" :> 10) @@ ("height" :> 10)

\* the children a group is given: [kind, attrs, units]
ChildTemplates ==
    { [kind |-> "rect", attrs |-> PlainRect, units |-> {}],
      [kind |-> "rect", attrs |-> SetAttr(PlainRect, "transform", Scale(2)), units |-> {}],
      [kind |-> "rect", attrs |-> SetAttr(PlainRect, "transform", TranslateScale(1)),
       units |-> {}],
      [kind |-> "rect", attrs |-> SetAttr(PlainRect, "transform", Rotate), units |-> {}],
      [kind |-> "rect", attrs |-> PlainRect, units |-> {"width"}],
      [kind |-> "rect", attrs |-> SetAttr(PlainRect, "mask", "url(#m)"), units |-> {}],
      [kind |-> "rect",
       attrs |-> SetAttr(SetAttr(PlainRect, "transform", Scale(2)), "stroke-width", 3),
       units |-> {}],
      [kind |-> "circle", attrs |-> ("cx" :> 10) @@ ("cy" :> 15) @@ ("r" :> 15),
       units |-> {}],
      [kind |-> "ellipse", attrs |-> ("rx" :> 15) @@ ("ry" :> 5), units |-> {}],
      [kind |-> "line",
       attrs |-> SetAttr(("x2" :> 30) @@ ("y2" :> 5), "transform", Scale(2)),
       units |-> {}],
      [kind |-> "path", attrs |-> SetAttr(NoAttrs, "transform", Scale(2)), units |-> {}],
      [kind |-> "g", attrs |-> SetAttr(NoAttrs, "transform", Scale(2)), units |-> {}] }

GroupAttrs ==
    UNION {UNION {WithMask(a2) : a2 \in WithStroke(a1, {2})}
              : a1 \in WithTs(NoAttrs, {TranslateScale(2), NonUniform})}

\* <svg> with one <g> in it, the group with up to MaxChildren children
GroupDocs ==
    { <<Node("svg", 0, NoAttrs, {}), Node("g", 1, ga, {})>>
          \o [j \in 1..Len(cs) |-> Node(cs[j].kind, 2, cs[j].attrs, cs[j].units)] :
        ga \in GroupAttrs,
        cs \in UNION {[1..m -> ChildTemplates] : m \in 0..MaxChildren} }

PassInit ==
    /\ doc \in ShapeDocs \cup GroupDocs
    /\ orig = doc
    /\ stage = "A"
    /\ idx = 1
    /\ runs = <<>>
    /\ args = [input |-> Stdin, output |-> Stdout, multipass |-> FALSE,
               allow_bigger |-> FALSE, copy_on_error |-> FALSE,
               append_newline |-> FALSE, quiet |-> FALSE]
    /\ pc = "exit"
    /\ raw = <<>>
    /\ input_size = 0
    /\ buf = <<>>
    /\ prev_size = 0
    /\ stderr = <<>>
    /\ io = <<>>
    /\ cycles = 0
    /\ hist = NoHist

PassSpec == PassInit /\ [][PassNext]_vars


-----------------------------------------------------------------------------
(* Properties of the pass *)

Done == stage = "done"

\* the groups of the input that carry a transform
TsGroups == {i \in 1..Len(orig) : orig[i].kind = "g" /\ Has(orig[i], "transform")}

\* the three validity guards
PassesGuards(n) == has_valid_transform(n) /\ is_valid_attrs(n) /\ is_valid_coords(n)

Val(attrs, a) == IF a \in DOMAIN attrs THEN attrs[a] ELSE 0

PosPairs(k) ==
    CASE k = "rect" -> {<<"x", "y">>}
      [] k = "circle" -> {<<"cx", "cy">>}
      [] k = "ellipse" -> {<<"cx", "cy">>}
      [] k = "line" -> {<<"x1", "y1">>, <<"x2", "y2">>}
      [] OTHER -> {}

SizeAttrs(k) ==
    CASE k = "rect" -> {"width", "height", "rx", "ry"}
      [] k = "circle" -> {"r"}
      [] k = "ellipse" -> {"rx", "ry"}
      [] OTHER -> {}

PosAttrs(k) == UNION {{p[1], p[2]} : p \in PosPairs(k)}

\* n1 is n0 with the transform translate(t.e, t.f) scale(t.a) folded in, sw
\* being the stroke-width in effect on n0
FoldedAs(n0, n1, t, sw) ==
    /\ n1.kind = n0.kind /\ n1.parent = n0.parent /\ n1.units = n0.units
    /\ DOMAIN n1.attrs = ((DOMAIN n0.attrs \ {"transform"}) \cup PosAttrs(n0.kind))
                            \cup (IF t.a # 1 THEN {"stroke-width"} ELSE {})
    /\ \A p \in PosPairs(n0.kind) :
          /\ n1.attrs[p[1]] = t.a * Val(n0.attrs, p[1]) + t.e
          /\ n1.attrs[p[2]] = t.a * Val(n0.attrs, p[2]) + t.f
    /\ \A a \in SizeAttrs(n0.kind) \cap DOMAIN n0.attrs : n1.attrs[a] = t.a * n0.attrs[a]
    /\ IF t.a # 1 THEN n1.attrs["stroke-width"] = t.a * sw
       ELSE Has(n0, "stroke-width") => n1.attrs["stroke-width"] = n0.attrs["stroke-width"]
    /\ \A a \in DOMAIN n0.attrs \ (PosAttrs(n0.kind) \cup SizeAttrs(n0.kind)
                                      \cup {"transform", "stroke-width"}) :
          n1.attrs[a] = n0.attrs[a]

\* C7 as stated: the transform of a group is removed iff every direct child
\* passes the three guards.
C7_RemovedIffChildrenPass ==
    Done => \A i \in TsGroups :
        ~Has(doc[i], "transform") <=> \A j \in Children(orig, i) : PassesGuards(orig[j])

\* C7 amended: the transform of a group is removed iff the group itself passes
\* transform and attribute validity and every direct child is a rect, circle,
\* ellipse or line that passes the three guards.
C7_RemovedIffEligible ==
    Done => \A i \in TsGroups :
        ~Has(doc[i], "transform") <=>
            /\ has_valid_transform(orig[i])
            /\ is_valid_attrs(orig[i])
            /\ \A j \in Children(orig, i) :
                  IsShape(orig[j].kind) /\ PassesGuards(orig[j])

\* a group with two children has lost its transform
C7_Witness ==
    /\ Done
    /\ \E i \in TsGroups :
          /\ ~Has(doc[i], "transform")
          /\ Cardinality(Children(orig, i)) >= 2

\* the groups with a transform and a child that disqualifies the push-down
BlockedGroups ==
    {i \in TsGroups :
        \E j \in Children(orig, i) : ~(IsShape(orig[j].kind) /\ PassesGuards(orig[j]))}

\* C8 as stated: a group with a disqualifying child keeps its transform and
\* no attribute of any of its children is modified.
C8_NoChildModified ==
    Done => \A i \in BlockedGroups :
        /\ doc[i] = orig[i]
        /\ \A j \in Children(orig, i) : doc[j] = orig[j]

\* C8 amended: a group with a disqualifying child keeps its transform and no
\* child receives it: a child without a transform of its own is unchanged, a
\* shape that passes the guards is folded with its own transform alone, and
\* any other child differs at most by its own transform attribute, which only
\* a nested group can lose.
C8_NoPushDown ==
    Done => \A i \in BlockedGroups :
        /\ doc[i] = orig[i]
        /\ \A j \in Children(orig, i) :
              IF ~Has(orig[j], "transform") THEN doc[j] = orig[j]
              ELSE IF IsShape(orig[j].kind) /\ PassesGuards(orig[j])
              THEN FoldedAs(orig[j], doc[j], orig[j].attrs["transform"],
                            ResolveStrokeWidth(orig, j))
              ELSE /\ [doc[j] EXCEPT !.attrs = RemoveAttr(@, "transform")]
                        = [orig[j] EXCEPT !.attrs = RemoveAttr(@, "transform")]
                   /\ orig[j].kind # "g" => doc[j] = orig[j]

\* next to a disqualifying child, a sibling was folded with its own transform
C8_Witness ==
    /\ Done
    /\ \E i \in BlockedGroups : \E j \in Children(orig, i) :
          /\ IsShape(orig[j].kind) /\ PassesGuards(orig[j])
          /\ Has(orig[j], "transform")
          /\ doc[j] # orig[j]
          /\ Has(doc[i], "transform")

\* the shapes whose own transform was folded by process (no group pushed
\* another one onto them)
OwnFolded ==
    {j \in 1..Len(orig) :
        /\ IsShape(orig[j].kind)
        /\ Has(orig[j], "transform")
        /\ ~Has(orig[orig[j].parent], "transform")
        /\ ~Has(doc[j], "transform")}

\* C9: a fold with scale factor s turns an explicit stroke-width w into w*s,
\* and a fold with s = 1 creates no stroke-width on a shape that had none.
C9_StrokeWidthScaled ==
    Done => \A j \in OwnFolded :
        LET s == orig[j].attrs["transform"].a IN
        /\ Has(orig[j], "stroke-width") =>
              /\ Has(doc[j], "stroke-width")
              /\ doc[j].attrs["stroke-width"] = orig[j].attrs["stroke-width"] * s
        /\ (~Has(orig[j], "stroke-width") /\ s = 1) => ~Has(doc[j], "stroke-width")

\* a shape with an explicit stroke-width was folded with a scale of 2 or more
C9_Witness ==
    /\ Done
    /\ \E j \in OwnFolded :
          /\ Has(orig[j], "stroke-width")
          /\ orig[j].attrs["stroke-width"] >= 2
          /\ orig[j].attrs["transform"].a >= 2

\* <svg stroke-width='2'><rect height='10' width='10'
\*      transform='translate(10 20) scale(2)'/></svg>
C10_Doc ==
    <<Node("svg", 0, ("stroke-width" :> 2), {}),
      Node("rect", 1, ("height" :> 10) @@ ("width" :> 10)
                          @@ ("transform" :> Ts(2, 0, 0, 2, 10, 20)), {})>>

\* C10 as stated: the rect ends with height 20, width 20, x 20, y 40 and
\* stroke-width 4, without a transform.
C10_AsStated ==
    (Done /\ orig = C10_Doc) =>
        doc[2].attrs = ("height" :> 20) @@ ("width" :> 20) @@ ("x" :> 20)
                          @@ ("y" :> 40) @@ ("stroke-width" :> 4)

\* C10 amended: the rect ends with height 20, width 20, x 10, y 20 and
\* stroke-width 4, without a transform (the missing x and y are taken as 0 and
\* mapped to the translation).
C10_Folded ==
    (Done /\ orig = C10_Doc) =>
        /\ doc[2].attrs = ("height" :> 20) @@ ("width" :> 20) @@ ("x" :> 10)
                             @@ ("y" :> 20) @@ ("stroke-width" :> 4)
        /\ doc[1] = orig[1]

\* the pass has run on the document of C10
C10_Witness == Done /\ orig = C10_Doc /\ doc # orig


\* <svg><g transform='scale(2 3)'><rect height='10' width='10' x='10'
\*      y='15'/></g></svg>
C11_Doc ==
    <<Node("svg", 0, NoAttrs, {}),
      Node("g", 1, ("transform" :> Ts(2, 0, 0, 3, 0, 0)), {}),
      Node("rect", 2, ("x" :> 10) @@ ("y" :> 15) @@ ("width" :> 10)
                          @@ ("height" :> 10), {})>>

\* C11 as stated: the group with scale(2 3) loses its transform and the scale
\* reaches its rect.
C11_AsStated ==
    (Done /\ orig = C11_Doc) =>
        /\ ~Has(doc[2], "transform")
        /\ doc[3] # orig[3]

\* C11 amended: a group with the non-uniform scale(2 3) fails transform
\* validity: the pass leaves the group's transform and its rect as they were.
C11_Kept ==
    (Done /\ orig = C11_Doc) => doc = orig

\* the pass has run to its end on the document of C11
C11_Witness == Done /\ orig = C11_Doc /\ Has(doc[2], "transform")


\* the groups with a transform that fail transform validity or attribute
\* validity themselves
InvalidGroups ==
    {i \in TsGroups : ~has_valid_transform(orig[i]) \/ ~is_valid_attrs(orig[i])}

\* the node differs from the input at most by the loss of its own transform
SameButTransform(n0, n1) ==
    /\ n1.kind = n0.kind /\ n1.parent = n0.parent /\ n1.units = n0.units
    /\ RemoveAttr(n1.attrs, "transform") = RemoveAttr(n0.attrs, "transform")

\* C12: a group that carries a mask, or fails transform validity, is never
\* folded, whatever its children are: at every step of the pass the group node
\* is as in the input, a child without a transform still has none and is
\* unchanged, and a child with a transform is either unchanged, or a shape
\* folded with its own transform alone, or a nested group that lost its own.
C12_InvalidGroupKept ==
    \A i \in InvalidGroups :
        /\ doc[i] = orig[i]
        /\ \A j \in Children(orig, i) :
              \/ doc[j] = orig[j]
              \/ /\ Has(orig[j], "transform")
                 /\ IsShape(orig[j].kind)
                 /\ FoldedAs(orig[j], doc[j], orig[j].attrs["transform"],
                             ResolveStrokeWidth(orig, j))
              \/ /\ Has(orig[j], "transform")
                 /\ orig[j].kind = "g"
                 /\ SameButTransform(orig[j], doc[j])

\* the pass has ended on a masked group with a valid transform whose two
\* children are shapes that pass the guards, and the group kept its transform
C12_Witness ==
    /\ Done
    /\ \E i \in InvalidGroups :
          /\ Has(orig[i], "mask")
          /\ has_valid_transform(orig[i])
          /\ Cardinality(Children(orig, i)) >= 2
          /\ \A j \in Children(orig, i) :
                IsShape(orig[j].kind) /\ PassesGuards(orig[j])
          /\ Has(doc[i], "transform")


\* the rects, circles, ellipses and lines that fail at least one guard
FailingShapes ==
    {j \in 1..Len(orig) : IsShape(orig[j].kind) /\ ~PassesGuards(orig[j])}

\* C13: the guards are conjunctive and a failure is a silent no-op: at every
\* step of the pass, a rect, circle, ellipse or line that fails transform
\* validity, attribute validity or coordinate validity has all its attributes
\* (transform, geometry, stroke-width included) as in the input, also under a
\* group with a transform.
C13_FailingShapeUntouched ==
    /\ Len(doc) = Len(orig)
    /\ \A j \in FailingShapes : doc[j] = orig[j]

\* the pass has ended on a shape that carries a valid scale and fails only
\* coordinate validity: it still has its transform
C13_Witness ==
    /\ Done
    /\ \E j \in FailingShapes :
          /\ Has(orig[j], "transform")
          /\ has_valid_transform(orig[j]) /\ is_valid_attrs(orig[j])
          /\ ~is_valid_coords(orig[j])
          /\ HasScale(get_ts(orig[j]))
          /\ Has(doc[j], "transform")


\* the axis-aligned bounding box <<x0, y0, x1, y1>> of a shape, a missing
\* attribute taken as 0
BBox(k, attrs) ==
    CASE k = "rect" ->
           <<Val(attrs, "x"), Val(attrs, "y"),
             Val(attrs, "x") + Val(attrs, "width"), Val(attrs, "y") + Val(attrs, "height")>>
      [] k = "circle" ->
           <<Val(attrs, "cx") - Val(attrs, "r"), Val(attrs, "cy") - Val(attrs, "r"),
             Val(attrs, "cx") + Val(attrs, "r"), Val(attrs, "cy") + Val(attrs, "r")>>
      [] k = "ellipse" ->
           <<Val(attrs, "cx") - Val(attrs, "rx"), Val(attrs, "cy") - Val(attrs, "ry"),
             Val(attrs, "cx") + Val(attrs, "rx"), Val(attrs, "cy") + Val(attrs, "ry")>>
      [] k = "line" ->
           <<Min(Val(attrs, "x1"), Val(attrs, "x2")), Min(Val(attrs, "y1"), Val(attrs, "y2")),
             -Min(-Val(attrs, "x1"), -Val(attrs, "x2")),
             -Min(-Val(attrs, "y1"), -Val(attrs, "y2"))>>

\* the second loop is at a rect, circle, ellipse or line that carries a
\* transform and passes the guards
AtFold ==
    /\ stage = "B"
    /\ idx <= Len(doc)
    /\ IsShape(doc[idx].kind)
    /\ Has(doc[idx], "transform")
    /\ PassesGuards(doc[idx])

\* C14: the fold of T = translate(tx, ty) scale(s) on a shape that passes the
\* guards removes the transform, turns every position v into s*v + t and every
\* size v into s*v, and so maps the shape's bounding box to its image under T.
C14_FoldIsImage ==
    [][AtFold =>
          LET n0 == doc[idx]
              n1 == doc'[idx]
              t == n0.attrs["transform"]
              b0 == BBox(n0.kind, n0.attrs)
          IN  /\ ~Has(n1, "transform")
              /\ \A p \in PosPairs(n0.kind) :
                    /\ Has(n1, p[1]) /\ n1.attrs[p[1]] = t.a * Val(n0.attrs, p[1]) + t.e
                    /\ Has(n1, p[2]) /\ n1.attrs[p[2]] = t.a * Val(n0.attrs, p[2]) + t.f
              /\ \A a \in SizeAttrs(n0.kind) :
                    /\ Has(n1, a) <=> Has(n0, a)
                    /\ Val(n1.attrs, a) = t.a * Val(n0.attrs, a)
              /\ BBox(n1.kind, n1.attrs)
                    = <<t.a * b0[1] + t.e, t.a * b0[2] + t.f,
                        t.a * b0[3] + t.e, t.a * b0[4] + t.f>>]_vars

\* a line with both end points set was folded with a translation and a scale
\* of 2 or more
C14_Witness ==
    /\ Done
    /\ \E j \in OwnFolded :
          /\ orig[j].kind = "line"
          /\ {"x1", "y1", "x2", "y2"} \subseteq DOMAIN orig[j].attrs
          /\ orig[j].attrs["transform"].a >= 2
          /\ orig[j].attrs["transform"].e # 0
          /\ doc[j].attrs["x2"] # orig[j].attrs["x2"]


\* the groups of the input that stage A pushes down
EligibleGroups ==
    {i \in TsGroups :
        /\ has_valid_transform(orig[i]) /\ is_valid_attrs(orig[i])
        /\ \A j \in Children(orig, i) : IsShape(orig[j].kind) /\ PassesGuards(orig[j])}

\* translate/scale g as the outer transform of node n, whose own transform,
\* when it has one, is the inner one: first scale by c.a and move by
\* (c.e, c.f), then scale by g.a and move by (g.e, g.f)
Composed(g, n) ==
    IF Has(n, "transform")
    THEN LET c == n.attrs["transform"]
         IN  [a |-> g.a * c.a, e |-> g.a * c.e + g.e, f |-> g.a * c.f + g.f]
    ELSE [a |-> g.a, e |-> g.e, f |-> g.f]

\* C16: stage A completes before stage B and stage B sees its result: while
\* stage A runs no geometry or stroke-width has changed; once it is over every
\* eligible group has lost its transform; and at the end of the pass no child
\* of such a group has a transform and each child is its original folded with
\* compose(G outer, own transform inner), or with G alone.
C16_PushDownThenFold ==
    /\ stage = "A" =>
          \A j \in 1..Len(orig) : SameButTransform(orig[j], doc[j])
    /\ stage # "A" =>
          \A i \in EligibleGroups : ~Has(doc[i], "transform")
    /\ Done =>
          \A i \in EligibleGroups : \A j \in Children(orig, i) :
              /\ ~Has(doc[j], "transform")
              /\ FoldedAs(orig[j], doc[j],
                          Composed(orig[i].attrs["transform"], orig[j]),
                          ResolveStrokeWidth(orig, j))

\* a group was pushed down onto a child with a translation of its own and onto
\* a child with a scale of its own
C16_Witness ==
    /\ Done
    /\ \E i \in EligibleGroups : \E j, k \in Children(orig, i) :
          /\ Has(orig[j], "transform") /\ orig[j].attrs["transform"].e # 0
          /\ Has(orig[k], "transform") /\ orig[k].attrs["transform"].a >= 2
          /\ orig[i].attrs["transform"].a >= 2
          /\ orig[i].attrs["transform"].e # 0
          /\ ~Has(doc[i], "transform")
          /\ doc[j] # orig[j]


RECURSIVE Ancestors(_, _)
\* the ancestors of node i
Ancestors(d, i) ==
    IF d[i].parent = 0 THEN {} ELSE {d[i].parent} \cup Ancestors(d, d[i].parent)

\* the stroke-width node j inherits: the one of the nearest ancestor that sets
\* it (the ancestor latest in document order), 1 when none does
InheritedStroke(d, j) ==
    LET S == {a \in Ancestors(d, j) : Has(d[a], "stroke-width")}
    IN  IF S = {} THEN 1
        ELSE d[CHOOSE a \in S : \A b \in S : b <= a].attrs["stroke-width"]

\* the shapes of the input that the pass folds, with a transform of their own
\* or with the one of their group
FoldedShapes ==
    {j \in 1..Len(orig) :
        /\ IsShape(orig[j].kind) /\ PassesGuards(orig[j])
        /\ Has(orig[j], "transform") \/ orig[j].parent \in EligibleGroups}

\* the scale factor of the transform folded into shape j
FoldedScale(j) ==
    IF orig[j].parent \in EligibleGroups
    THEN Composed(orig[orig[j].parent].attrs["transform"], orig[j]).a
    ELSE orig[j].attrs["transform"].a

\* C17: when the folded transform has a scale part and the shape has no
\* stroke-width of its own, the pass writes on the shape sx times the
\* stroke-width of the nearest ancestor that sets one, or sx times 1, and no
\* node other than a folded shape has its stroke-width changed.
C17_InheritedStrokeScaled ==
    Done =>
        /\ \A j \in FoldedShapes :
              (FoldedScale(j) # 1 /\ ~Has(orig[j], "stroke-width")) =>
                  /\ Has(doc[j], "stroke-width")
                  /\ doc[j].attrs["stroke-width"]
                        = FoldedScale(j) * InheritedStroke(orig, j)
        /\ \A i \in (1..Len(orig)) \ FoldedShapes :
              /\ Has(doc[i], "stroke-width") <=> Has(orig[i], "stroke-width")
              /\ Has(orig[i], "stroke-width") =>
                    doc[i].attrs["stroke-width"] = orig[i].attrs["stroke-width"]

\* a shape without a stroke-width was folded with a scale of 2 or more under
\* an ancestor that sets stroke-width to 2 or more
C17_Witness ==
    /\ Done
    /\ \E j \in FoldedShapes :
          /\ ~Has(orig[j], "stroke-width")
          /\ FoldedScale(j) >= 2
          /\ InheritedStroke(orig, j) >= 2
          /\ Has(doc[j], "stroke-width")
          /\ \E a \in Ancestors(orig, j) :
                Has(doc[a], "stroke-width") /\ doc[a].attrs["stroke-width"] >= 2


\* the attributes the pass may write on a node of the kind
Writable(k) ==
    IF IsShape(k) THEN {"transform", "stroke-width"} \cup PosAttrs(k) \cup SizeAttrs(k)
    ELSE {"transform"}

\* C18: the pass changes attributes only: at every step the tree has the same
\* nodes in the same order, each of the same kind and under the same parent (a
\* group that lost its transform is still there, with its children), and the
\* only attributes that differ from the input are transform, and on a shape
\* its geometry and its stroke-width.
C18_StructureKept ==
    /\ Len(doc) = Len(orig)
    /\ \A j \in 1..Len(orig) :
          /\ doc[j].kind = orig[j].kind
          /\ doc[j].parent = orig[j].parent
          /\ doc[j].units = orig[j].units
          /\ DOMAIN doc[j].attrs \ Writable(orig[j].kind)
                = DOMAIN orig[j].attrs \ Writable(orig[j].kind)
          /\ \A a \in DOMAIN orig[j].attrs \ Writable(orig[j].kind) :
                doc[j].attrs[a] = orig[j].attrs[a]
    /\ \A i \in 1..Len(orig) : Children(doc, i) = Children(orig, i)

\* a group has lost its transform to its two children and is still their
\* parent
C18_Witness ==
    /\ Done
    /\ \E i \in EligibleGroups :
          /\ Cardinality(Children(orig, i)) >= 2
          /\ doc[i].kind = "g"
          /\ DOMAIN doc[i].attrs = DOMAIN orig[i].attrs \ {"transform"}
          /\ Children(doc, i) = Children(orig, i)
          /\ \A j \in Children(orig, i) : doc[j] # orig[j]


\* C19: the pass is idempotent: in a second run, started on the tree the first
\* run left, no group is eligible for push-down, no shape that passes the
\* guards carries a transform, and at every step the tree is the one the
\* second run was started on.
C19_Idempotent ==
    runs # <<>> =>
        /\ EligibleGroups = {}
        /\ FoldedShapes = {}
        /\ doc = orig

\* the second run has ended on the tree of a first run that pushed a group
\* down and folded its children
C19_Witness ==
    /\ Done
    /\ Len(runs) = 1
    /\ runs[1] # orig
    /\ \E i \in 1..Len(orig) :
          /\ runs[1][i].kind = "g"
          /\ Has(runs[1][i], "transform")
          /\ ~Has(orig[i], "transform")
          /\ Children(orig, i) # {}
          /\ \A j \in Children(orig, i) : orig[j] # runs[1][j] /\ doc[j] = orig[j]


-----------------------------------------------------------------------------
(* More properties of the driver *)

\* the first cycle serialized the document to an empty buffer, which no
\* serialized SVG document is
FirstEmpty == cycles = 1 /\ hist.last_out = <<>>

\* C15: with multipass and no failure the loop is left at the first cycle whose
\* serialized length equals the one of the cycle before it and at no earlier
\* one: while the driver is in the loop no cycle had the length of its
\* predecessor, when it has left the last cycle had, with the same content or
\* not, and the buffer at the size check is what that last cycle wrote.
C15_LeavesAtFirstEqualLength ==
    (args.multipass /\ ~hist.parse_failed /\ ~hist.pass_failed /\ ~FirstEmpty) =>
        /\ ~hist.early_equal
        /\ pc = "loop" => ~hist.last_equal
        /\ LeftLoop =>
              /\ cycles >= 2
              /\ hist.last_equal
              /\ Len(hist.last_out) = prev_size
              /\ pc = "check" => buf = hist.last_out
              /\ hist.at_check # -1 => hist.at_check = Len(hist.last_out)

\* after two cycles that changed the length, a third one changed the content
\* and not the length, and the loop was left with its buffer
C15_Witness ==
    /\ args.multipass
    /\ LeftLoop
    /\ pc = "check"
    /\ cycles >= 3
    /\ hist.last_differs
    /\ buf # <<>>
    /\ buf = hist.last_out


\* the number of line breaks in a buffer
NewLines(b) == Cardinality({k \in DOMAIN b : b[k] = NewLine})

\* the byte an option adds after the size check
Extra(a) == IF a.append_newline THEN 1 ELSE 0

\* C20: with allow-bigger unset, whatever is written to the destination is at
\* most as long as the input, plus 1 with append-newline: a saved buffer had at
\* most the input's length at the size check and is that buffer followed by
\* exactly one line break, or by none without the option; nothing is saved
\* after a rejection.
C20_WrittenWithinInput ==
    ~args.allow_bigger =>
        /\ \A e \in Range(io) : Len(e.data) <= input_size + Extra(args)
        /\ \A e \in Saves :
              /\ hist.at_check <= input_size
              /\ ~hist.rejected
              /\ Len(e.data) = hist.at_check + Extra(args)
              /\ NewLines(e.data) = Extra(args)
              /\ args.append_newline => e.data[Len(e.data)] = NewLine

\* a buffer as long as the input was saved with the line break after it
C20_Witness ==
    /\ ~args.allow_bigger
    /\ args.append_newline
    /\ input_size >= 1
    /\ \E e \in Saves :
          /\ e.ok
          /\ Len(e.data) = input_size + 1
          /\ e.data[Len(e.data)] = NewLine

=============================================================================
